---- MODULE Spec2Model ----
(***************************************************************************)
(* A model of src/slack.py (localslackirc): the Slack gateway object, its  *)
(* memoized channel list, its user table and the events_iter generator.    *)
(*                                                                         *)
(* One consumer drives the gateway on a single thread of control: it calls *)
(* the lookup methods and requests elements of the event sequence.  The    *)
(* generator's position is the variable pc; while the generator runs       *)
(* (pc = "read" or pc = "for") the consumer is blocked inside next().      *)
(***************************************************************************)
EXTENDS Naturals, Sequences, FiniteSets, TLC

VARIABLES
    pc,         \* position of the events_iter generator
    events,     \* the generator's local `events`: the batch of the last read
    i,          \* number of envelopes of `events` the for loop has taken
    usercache,  \* Slack._usercache: user id -> User
    chancache,  \* lru_cache of Slack.channels: <<>> or <<the channel list>>
    idcache,    \* lru_cache of Slack.get_channel: id -> Channel
    namecache,  \* lru_cache of Slack.get_channel_by_name: name -> Channel
    nConnect,   \* rtm_connect calls made so far
    nRead,      \* rtm_read calls made so far
    nFailed,    \* rtm_read calls that raised BrokenPipeError or TimeoutError
    nMarker,    \* None markers yielded so far
    lastRead,   \* how the most recent rtm_read ended, and the exception of
                \* rtm_read when that ended the sequence
    dropped,    \* user ids that user_change envelopes of the current read
                \* cycle removed from the user table
    changed,    \* user ids that user_change envelopes of the current read
                \* cycle named and get_user has not fetched since
    ret         \* the most recent call of the consumer and its outcome

vars == <<pc, events, i, usercache, chancache, idcache, namecache,
          nConnect, nRead, nFailed, nMarker, lastRead, dropped, changed, ret>>

streamVars == <<pc, events, i, nConnect, nRead, nFailed, nMarker, lastRead, dropped>>
chanVars == <<chancache, idcache, namecache>>

(***************************************************************************)
(* Bounds of the model.                                                    *)
(***************************************************************************)
MaxBatch == 2       \* longest batch one rtm_read returns (SpecStream)
MaxReads == 2       \* rtm_read calls of one event sequence (SpecStream)
MaxBatchAll == 1    \* the same two bounds for the whole gateway (Spec)
MaxReadsAll == 1
MaxBatchKinds == 2  \* the same two bounds for the classifier (SpecClassify)
MaxReadsKinds == 1

(***************************************************************************)
(* Python values.                                                          *)
(***************************************************************************)
None == "None"                       \* the value dict.get gives for a missing key
Has(d, k) == k \in DOMAIN d          \* k in d
Get(d, k) == IF Has(d, k) THEN d[k] ELSE None          \* d.get(k)
\* Mutant of Falsy: only a missing value is false.
FalsyAbsentOnly(v) == v = None

Falsy(v) == v = None \/ v = ""                         \* not v
\* Mutant of SetItem: a key the dict has keeps its value (dict.setdefault).
SetDefault(d, k, v) == [x \in DOMAIN d \cup {k} |-> IF x \in DOMAIN d THEN d[x] ELSE v]

SetItem(d, k, v) == [x \in DOMAIN d \cup {k} |-> IF x = k THEN v ELSE d[x]]
EmptyDict == [x \in {} |-> x]

KeyError == "KeyError"
SchemaError == "SchemaError"         \* what typedload's load raises
ResponseException == "ResponseException"
BrokenPipeError == "BrokenPipeError"
TimeoutError == "TimeoutError"
OtherError == "ConnectionResetError" \* an exception line 213 does not catch

(***************************************************************************)
(* typedload.load for the NamedTuples of the module: a field without a     *)
(* default is required, a key that is no field is ignored.                 *)
(***************************************************************************)
MessageFields == {"channel", "user", "text"}
UserTypingFields == {"channel", "user"}
FileDeletedFields == {"file_id"}
UserFields == {"id", "name", "profile"}

CanLoad(raw, required) == required \subseteq DOMAIN raw

LoadMessage(raw, tag) ==
    [tag |-> tag, channel |-> raw.channel, user |-> raw.user, text |-> raw.text]

LoadUserTyping(raw) ==
    [tag |-> "UserTyping", channel |-> raw.channel, user |-> raw.user]

LoadFileDeleted(raw) ==
    [tag |-> "FileDeleted", file_id |-> raw.file_id,
     channel_ids |-> IF Has(raw, "channel_ids") THEN raw.channel_ids ELSE <<>>]

LoadProfile(raw) ==
    [real_name |-> IF Has(raw, "real_name") THEN raw.real_name ELSE "noname"]

LoadUser(raw) ==
    [id |-> raw.id, name |-> raw.name, profile |-> LoadProfile(raw.profile),
     is_admin |-> IF Has(raw, "is_admin") THEN raw.is_admin ELSE FALSE]

(***************************************************************************)
(* One iteration of the for loop of events_iter on envelope e: what it     *)
(* yields, what it raises, which user id it drops from the user table.     *)
(***************************************************************************)
\* Mutant of Yield: delivering an event of a user drops that user.
YieldAndEvict(ev) ==
    [k |-> "yield", ev |-> <<ev>>, err |-> "",
     evict |-> IF "user" \in DOMAIN ev THEN {ev.user} ELSE {}]

Yield(ev) == [k |-> "yield", ev |-> <<ev>>, err |-> "", evict |-> {}]
Pass == [k |-> "pass", ev |-> <<>>, err |-> "", evict |-> {}]
\* Mutant of Evict: lines 239-240 are missing.
EvictNothing(id) == [k |-> "pass", ev |-> <<>>, err |-> "", evict |-> {}]

Evict(id) == [k |-> "pass", ev |-> <<>>, err |-> "", evict |-> {id}]
\* Mutant of Ignore: an envelope of an unknown kind is an error.
IgnoreFails == [k |-> "raise", ev |-> <<>>, err |-> "ValueError", evict |-> {}]

Ignore == [k |-> "print", ev |-> <<>>, err |-> "", evict |-> {}]  \* print(event)
Raise(err) == [k |-> "raise", ev |-> <<>>, err |-> err, evict |-> {}]

HandleMessage(e) ==
    IF CanLoad(e, MessageFields)
    THEN Yield(LoadMessage(e, "Message"))
    ELSE Raise(SchemaError)

HandleMessageChanged(e) ==
    IF ~Has(e, "channel") \/ ~Has(e, "message") \/ ~Has(e, "previous_message")
    THEN Raise(KeyError)
    ELSE LET cur == SetItem(e.message, "channel", e.channel)
             prev == SetItem(e.previous_message, "channel", e.channel)
         IN  IF CanLoad(prev, MessageFields) /\ CanLoad(cur, MessageFields)
             THEN Yield([tag |-> "MessageEdit",
                         previous |-> LoadMessage(prev, "Message"),
                         current |-> LoadMessage(cur, "Message")])
             ELSE Raise(SchemaError)

HandleMessageDeleted(e) ==
    IF ~Has(e, "channel") \/ ~Has(e, "previous_message")
    THEN Raise(KeyError)
    ELSE LET prev == SetItem(e.previous_message, "channel", e.channel)
         IN  IF CanLoad(prev, MessageFields)
             THEN Yield(LoadMessage(prev, "MessageDelete"))
             ELSE Raise(SchemaError)

HandleUserTyping(e) ==
    IF CanLoad(e, UserTypingFields)
    THEN Yield(LoadUserTyping(e))
    ELSE Raise(SchemaError)

HandleUserChange(e) ==
    IF ~Has(e, "user")
    THEN Raise(KeyError)
    ELSE IF CanLoad(e.user, UserFields)
         THEN Evict(LoadUser(e.user).id)
         ELSE Raise(SchemaError)

\* The user id a user_change envelope names: u.id of line 238, when the
\* envelope has a user that decodes.
NamedUsers(e) ==
    IF Get(e, "type") = "user_change" /\ Has(e, "user") /\ CanLoad(e.user, UserFields)
    THEN {LoadUser(e.user).id}
    ELSE {}

HandleFileDeleted(e) ==
    IF CanLoad(e, FileDeletedFields)
    THEN Yield(LoadFileDeleted(e))
    ELSE Raise(SchemaError)

HandleEvent(e) ==
    LET t == Get(e, "type")
        subt == Get(e, "subtype")
    IN  IF t = "message" /\ Falsy(subt) THEN HandleMessage(e)
        ELSE IF t = "message" /\ subt = "message_changed" THEN HandleMessageChanged(e)
        ELSE IF t = "message" /\ subt = "message_deleted" THEN HandleMessageDeleted(e)
        ELSE IF t = "user_typing" THEN HandleUserTyping(e)
        ELSE IF t = "user_change" THEN HandleUserChange(e)
        ELSE IF t = "file_deleted" THEN HandleFileDeleted(e)
        ELSE IF t \in {"channel_marked", "group_marked", "hello"} THEN Pass
        ELSE Ignore

(***************************************************************************)
(* What the transport can deliver.                                         *)
(***************************************************************************)
UserIds == {"U1", "U2"}
UserNames == {"alice", "bob"}

RawUser(id, name) == [id |-> id, name |-> name, profile |-> [real_name |-> name]]

EvMessage == [type |-> "message", channel |-> "C1", user |-> "U1", text |-> "hi"]
EvMessageChanged ==
    [type |-> "message", subtype |-> "message_changed", channel |-> "C1",
     message |-> [user |-> "U1", text |-> "new", channel |-> "C2"],
     previous_message |-> [user |-> "U1", text |-> "old"]]
EvUserChange(id) == [type |-> "user_change", user |-> RawUser(id, "carol")]
EvHello == [type |-> "hello"]
EvMessageNoText == [type |-> "message", channel |-> "C1", user |-> "U1"]
EvMessageChangedNoPrevious ==
    [type |-> "message", subtype |-> "message_changed", channel |-> "C1",
     message |-> [user |-> "U1", text |-> "new"]]

\* The envelopes rtm_read draws its batches from.
Envelopes ==
    {EvMessage, EvHello, EvMessageNoText, EvMessageChangedNoPrevious}
    \cup {EvUserChange(id) : id \in UserIds}

\* Envelopes of every branch of the for loop, lines 222-248.
EvMessageEmptySubtype ==
    [type |-> "message", subtype |-> "", channel |-> "C2", user |-> "U2", text |-> "yo"]
EvMessageEmptyChannel == [type |-> "message", channel |-> "", user |-> "U1", text |-> "hi"]
EvMessageDeleted ==
    [type |-> "message", subtype |-> "message_deleted", channel |-> "C2",
     previous_message |-> [user |-> "U2", text |-> "gone", channel |-> "C1"]]
EvBotMessage ==
    [type |-> "message", subtype |-> "bot_message", channel |-> "C1", user |-> "U1",
     text |-> "beep"]
EvUserTyping == [type |-> "user_typing", channel |-> "C1", user |-> "U1"]
EvUserTypingWithText ==
    [type |-> "user_typing", channel |-> "C1", user |-> "U1", text |-> "draft"]
EvFileDeleted == [type |-> "file_deleted", file_id |-> "F1", channel_ids |-> <<"C1">>]
EvFileDeletedNoChannels == [type |-> "file_deleted", file_id |-> "F2"]
EvChannelMarked == [type |-> "channel_marked", channel |-> "C1"]
EvGroupMarked == [type |-> "group_marked", channel |-> "C1"]
EvPresenceChange == [type |-> "presence_change", presence |-> "away"]
EvNoType == [reply_to |-> "1", text |-> "hi"]

AllEnvelopes ==
    Envelopes \cup
    {EvMessageChanged, EvMessageEmptySubtype, EvMessageEmptyChannel, EvMessageDeleted,
     EvBotMessage, EvUserTyping, EvUserTypingWithText, EvFileDeleted,
     EvFileDeletedNoChannels, EvChannelMarked, EvGroupMarked, EvPresenceChange,
     EvNoType}

RECURSIVE SeqsUpTo(_, _)
SeqsUpTo(S, n) ==
    IF n = 0 THEN {<<>>}
    ELSE LET shorter == SeqsUpTo(S, n - 1)
         IN  shorter \cup {Append(s, x) : s \in {t \in shorter : Len(t) = n - 1}, x \in S}

Batches == SeqsUpTo(Envelopes, MaxBatch)

\* Batches of at most n envelopes for the classifier: an envelope of any kind
\* before or after envelopes of the stream.
KindBatches(n) ==
    IF n = 0 THEN {<<>>}
    ELSE {<<>>} \cup
         {<<e>> \o t : e \in AllEnvelopes, t \in SeqsUpTo(Envelopes, n - 1)} \cup
         {Append(t, e) : e \in AllEnvelopes, t \in SeqsUpTo(Envelopes, n - 1)}

\* users.info
UsersInfoResponses(id) ==
    {[ok |-> FALSE]} \cup {[ok |-> TRUE, user |-> RawUser(id, n)] : n \in UserNames}

\* channels.list and groups.list
RawChannel(id, name, topic, purpose) ==
    [id |-> id, name_normalized |-> name, purpose |-> [value |-> purpose],
     topic |-> [value |-> topic], members |-> {"U1"}, is_archived |-> FALSE]

ChGeneral == RawChannel("C1", "general", "welcome", "company news")
ChRandom == RawChannel("C2", "random", "", "off topic")
GrSecret == RawChannel("C1", "random", "", "")

ChannelsListResponses ==
    {[ok |-> FALSE]} \cup
    {[ok |-> TRUE, channels |-> l] : l \in {<<ChGeneral>>, <<ChGeneral, ChRandom>>}}
GroupsListResponses ==
    {[ok |-> FALSE], [ok |-> TRUE, groups |-> <<GrSecret>>]}

ChannelIds == {"C1", "C9"}          \* ids the consumer looks up
ChannelNames == {"random", "nope"}  \* names the consumer looks up

LoadTopic(raw) == [value |-> raw.value]
LoadChannel(raw) ==
    [id |-> raw.id, name_normalized |-> raw.name_normalized,
     purpose |-> LoadTopic(raw.purpose), topic |-> LoadTopic(raw.topic),
     members |-> raw.members]
LoadChannels(l) == [n \in 1..Len(l) |-> LoadChannel(l[n])]

\* Mutant of RealTopic: the purpose comes first.
RealTopicPurposeFirst(c) ==
    IF ~Falsy(c.purpose.value) THEN c.purpose.value ELSE c.topic.value

\* Channel.real_topic, lines 64-68.
RealTopic(c) == IF ~Falsy(c.topic.value) THEN c.topic.value ELSE c.purpose.value

(***************************************************************************)
(* The outcome of a call, as the consumer sees it.                         *)
(*   k: "-" no call yet, "running" inside next(), "value" a value in val,  *)
(*      "none" the value None, "stop" StopIteration, "raise" err raised    *)
(*   calls: the transport methods the call invoked, in order, each with    *)
(*      whether it succeeded (the ok of a response, the result of          *)
(*      rtm_connect, rtm_read returning rather than raising)               *)
(***************************************************************************)
Call(m, ok) == [m |-> m, ok |-> ok]
Outcome(op, arg, k, val, err, calls) ==
    [op |-> op, arg |-> arg, k |-> k, val |-> val, err |-> err, calls |-> calls]

NoCall == Outcome("-", "", "-", <<>>, "", <<>>)

\* The consumer has the control: the generator is not running.
Idle == pc \in {"created", "yield_event", "yield_none", "ended"}

(***************************************************************************)
(* Slack.channels, lines 129-148, on the responses r1 of channels.list and *)
(* r2 of groups.list: the outcome and the new content of its lru_cache.    *)
(* lru_cache keeps a result, never an exception.                           *)
(***************************************************************************)
\* Mutant of ChannelsBody: a failing groups.list is skipped.
ChannelsBodyPartial(r1, r2) ==
    IF ~r1.ok
    THEN [k |-> "raise", val |-> <<>>, err |-> ResponseException,
          calls |-> <<Call("channels.list", FALSE)>>]
    ELSE [k |-> "value",
          val |-> LoadChannels(r1.channels) \o
                  (IF r2.ok THEN LoadChannels(r2.groups) ELSE <<>>),
          err |-> "",
          calls |-> <<Call("channels.list", TRUE), Call("groups.list", r2.ok)>>]

ChannelsBody(r1, r2) ==
    IF ~r1.ok
    THEN [k |-> "raise", val |-> <<>>, err |-> ResponseException,
          calls |-> <<Call("channels.list", FALSE)>>]
    ELSE IF ~r2.ok
    THEN [k |-> "raise", val |-> <<>>, err |-> ResponseException,
          calls |-> <<Call("channels.list", TRUE), Call("groups.list", FALSE)>>]
    ELSE [k |-> "value", val |-> LoadChannels(r1.channels) \o LoadChannels(r2.groups),
          err |-> "",
          calls |-> <<Call("channels.list", TRUE), Call("groups.list", TRUE)>>]

ChannelsCall(cache, r1, r2) ==
    IF cache # <<>>
    THEN [k |-> "value", val |-> cache[1], err |-> "", calls |-> <<>>]
    ELSE ChannelsBody(r1, r2)

\* Mutant of ChannelsStore: channels is not memoized.
ChannelsStoreNever(cache, c) == cache

\* Mutant of ChannelsStore: what a failed fetch had gathered is memoized too.
ChannelsStoreFailure(cache, c) == IF cache = <<>> THEN <<c.val>> ELSE cache

ChannelsStore(cache, c) == IF cache = <<>> /\ c.k = "value" THEN <<c.val>> ELSE cache

\* Mutant of FirstHit: the loop goes on to the last hit.
LastHit(hits) == CHOOSE n \in hits : \A m \in hits : n >= m

\* The for loops of lines 157-159 and 169-171 return at the first hit.
FirstHit(hits) == CHOOSE n \in hits : \A m \in hits : n <= m

\* The first channel of l whose field has the value key; <<>> when there is none.
FirstMatch(l, field, key) ==
    LET hits == {n \in 1..Len(l) : l[n][field] = key}
    IN  IF hits = {} THEN <<>> ELSE <<l[FirstHit(hits)]>>

IdField == "id"                  \* c.id, line 158
NameField == "name_normalized"   \* c.name, line 170 and lines 60-62

\* A lookup, lines 150-172: memo is its own lru_cache, field what its loop
\* compares with key; chans is the lru_cache of channels after the call.
\* lru_cache keeps up to 128 results, more than the keys looked up here.
LookupCall(memo, key, field, cache, r1, r2) ==
    IF Has(memo, key)
    THEN [k |-> "value", val |-> <<memo[key]>>, err |-> "", calls |-> <<>>,
          chans |-> cache]
    ELSE LET c == ChannelsCall(cache, r1, r2)
             chans == ChannelsStore(cache, c)
         IN  IF c.k = "raise"
             THEN [k |-> "raise", val |-> <<>>, err |-> c.err, calls |-> c.calls,
                   chans |-> chans]
             ELSE LET hit == FirstMatch(c.val, field, key)
                  IN  IF hit = <<>>
                      THEN [k |-> "raise", val |-> <<>>, err |-> KeyError,
                            calls |-> c.calls, chans |-> chans]
                      ELSE [k |-> "value", val |-> hit, err |-> "",
                            calls |-> c.calls, chans |-> chans]

LookupStore(memo, key, res) ==
    IF ~Has(memo, key) /\ res.k = "value" THEN SetItem(memo, key, res.val[1]) ELSE memo

Channels ==
    /\ Idle
    /\ \E c \in {ChannelsCall(chancache, r1, r2) :
                    r1 \in ChannelsListResponses, r2 \in GroupsListResponses} :
         /\ chancache' = ChannelsStore(chancache, c)
         /\ ret' = Outcome("channels", "", c.k, c.val, c.err, c.calls)
    /\ UNCHANGED <<streamVars, changed, usercache, idcache, namecache>>

GetChannel(id) ==
    /\ Idle
    /\ \E res \in {LookupCall(idcache, id, IdField, chancache, r1, r2) :
                      r1 \in ChannelsListResponses, r2 \in GroupsListResponses} :
         /\ chancache' = res.chans
         /\ idcache' = LookupStore(idcache, id, res)
         /\ ret' = Outcome("get_channel", id, res.k, res.val, res.err, res.calls)
    /\ UNCHANGED <<streamVars, changed, usercache, namecache>>

GetChannelByName(name) ==
    /\ Idle
    /\ \E res \in {LookupCall(namecache, name, NameField, chancache, r1, r2) :
                      r1 \in ChannelsListResponses, r2 \in GroupsListResponses} :
         /\ chancache' = res.chans
         /\ namecache' = LookupStore(namecache, name, res)
         /\ ret' = Outcome("get_channel_by_name", name, res.k, res.val, res.err,
                           res.calls)
    /\ UNCHANGED <<streamVars, changed, usercache, idcache>>

\* The consumer reads real_topic of a channel the gateway gave it.
ReadRealTopic ==
    /\ Idle
    /\ chancache # <<>>
    /\ \E n \in 1..Len(chancache[1]) :
         LET c == chancache[1][n]
         IN  ret' = Outcome("real_topic", c.id, "value",
                            <<c, [value |-> RealTopic(c)]>>, "", <<>>)
    /\ UNCHANGED <<streamVars, changed, usercache, chanVars>>

(***************************************************************************)
(* Slack.get_user, lines 174-190.                                          *)
(***************************************************************************)
GetUserCall(cache, id, r) ==
    IF Has(cache, id)
    THEN [k |-> "value", val |-> <<cache[id]>>, err |-> "", calls |-> <<>>]
    ELSE IF r.ok
    THEN [k |-> "value", val |-> <<LoadUser(r.user)>>, err |-> "",
          calls |-> <<Call("users.info", TRUE)>>]
    ELSE [k |-> "raise", val |-> <<>>, err |-> KeyError,
          calls |-> <<Call("users.info", FALSE)>>]

\* Mutant of GetUserStore: line 187 is missing.
GetUserStoreNever(cache, id, res) == cache

GetUserStore(cache, id, res) ==
    IF ~Has(cache, id) /\ res.k = "value" THEN SetItem(cache, id, res.val[1]) ELSE cache

\* The call fetched the user: users.info was called and was ok.
Fetched(res) == res.calls # <<>> /\ res.k = "value"

GetUser(id) ==
    /\ Idle
    /\ \E res \in {GetUserCall(usercache, id, r) : r \in UsersInfoResponses(id)} :
         /\ usercache' = GetUserStore(usercache, id, res)
         /\ changed' = IF Fetched(res) THEN changed \ {id} ELSE changed
         /\ ret' = Outcome("get_user", id, res.k, res.val, res.err, res.calls)
    /\ UNCHANGED <<streamVars, chanVars>>

(***************************************************************************)
(* Slack.send_message, lines 192-202.                                      *)
(***************************************************************************)
SendMessageCall(r) ==
    IF r.ok
    THEN [k |-> "none", val |-> <<>>, err |-> "",
          calls |-> <<Call("chat.postMessage", TRUE)>>]
    ELSE [k |-> "raise", val |-> <<>>, err |-> ResponseException,
          calls |-> <<Call("chat.postMessage", FALSE)>>]

SendMessage ==
    /\ Idle
    /\ \E res \in {SendMessageCall(r) : r \in {[ok |-> TRUE], [ok |-> FALSE]}} :
         ret' = Outcome("send_message", "C1", res.k, res.val, res.err, res.calls)
    /\ UNCHANGED <<streamVars, changed, usercache, chanVars>>

(***************************************************************************)
(* Slack.events_iter, lines 205-249, a generator: nothing of it runs       *)
(* before the first next(), and each next() runs it to its next yield, to  *)
(* its end or to an exception.                                             *)
(***************************************************************************)
Running(calls) == Outcome("next", "", "running", <<>>, "", calls)

\* Line 209, with the result ok of rtm_connect: where the generator goes.
StartStep(ok) ==
    IF ok
    THEN [pc |-> "read", k |-> "running", err |-> ""]
    ELSE [pc |-> "ended", k |-> "stop", err |-> ""]

\* The first next(): line 209.
NextStart ==
    /\ pc = "created"
    /\ \E ok \in BOOLEAN :
         LET s == StartStep(ok)
         IN  /\ pc' = s.pc
             /\ ret' = Outcome("next", "", s.k, <<>>, s.err, <<Call("rtm_connect", ok)>>)
    /\ nConnect' = nConnect + 1
    /\ UNCHANGED <<events, i, usercache, chanVars, nRead, nFailed, nMarker, lastRead,
                   dropped, changed>>

\* Mutant of ResumePoint: a yield of the for loop leaves the loop.
ResumePointBreak(p) == "read"

\* Where a suspended generator resumes: after a yield of the for loop, the
\* for loop goes on; after the yield of line 249, the while loop does.
ResumePoint(p) == IF p = "yield_event" THEN "for" ELSE "read"

\* A later next() on a suspended generator.
NextResume ==
    /\ pc \in {"yield_event", "yield_none"}
    /\ pc' = ResumePoint(pc)
    /\ ret' = Running(<<>>)
    /\ UNCHANGED <<events, i, usercache, chanVars, nConnect, nRead, nFailed, nMarker,
                   lastRead, dropped, changed>>

\* next() on a generator that returned or raised: StopIteration.
NextEnded ==
    /\ pc = "ended"
    /\ ret' = Outcome("next", "", "stop", <<>>, "", <<>>)
    /\ UNCHANGED <<streamVars, changed, usercache, chanVars>>

\* What rtm_read does: it returns a batch or raises.
ReadResults(B) ==
    {[k |-> "batch", batch |-> b, err |-> ""] : b \in B} \cup
    {[k |-> "raise", batch |-> <<>>, err |-> e] :
        e \in {BrokenPipeError, TimeoutError, OtherError}}

Caught(err) == err \in {BrokenPipeError, TimeoutError}   \* line 213

\* Mutant of RehandshakeCalls: the except clause tries the handshake twice.
RehandshakeTwice(ok) == <<Call("rtm_connect", FALSE), Call("rtm_connect", ok)>>

\* Line 214: the except clause calls rtm_connect once; ok is its result.
RehandshakeCalls(ok) == <<Call("rtm_connect", ok)>>

\* Mutant of Recovered: line 216 is missing, `events` keeps the last batch.
RecoveredNoReset(old) ==
    [pc |-> "for", events |-> old, k |-> "running", err |-> "", how |-> "recovered"]

\* Lines 214 and 216, rtm_connect gave True: the for loop runs on an empty batch.
Recovered(old) ==
    [pc |-> "for", events |-> <<>>, k |-> "running", err |-> "", how |-> "recovered"]

\* Mutant of Unrecovered: the generator returns instead of raising.
UnrecoveredSilent(old, err) ==
    [pc |-> "ended", events |-> old, k |-> "stop", err |-> "", how |-> "failed"]

\* Lines 214-215, rtm_connect gave False: the bare raise re-raises err.
Unrecovered(old, err) ==
    [pc |-> "ended", events |-> old, k |-> "raise", err |-> err, how |-> "failed"]

\* Lines 211-216 on the result r of rtm_read and, when the except clause runs,
\* the result ok of its rtm_connect; old is `events` before the statement.
ReadStep(old, r, ok) ==
    IF r.k = "batch"
    THEN [pc |-> "for", events |-> r.batch, k |-> "running", err |-> "",
          how |-> "batch", calls |-> <<Call("rtm_read", TRUE)>>]
    ELSE IF ~Caught(r.err)
    THEN [pc |-> "ended", events |-> old, k |-> "raise", err |-> r.err,
          how |-> "error", calls |-> <<Call("rtm_read", FALSE)>>]
    ELSE LET s == IF ok THEN Recovered(old) ELSE Unrecovered(old, r.err)
         IN  [pc |-> s.pc, events |-> s.events, k |-> s.k, err |-> s.err,
              how |-> s.how,
              calls |-> <<Call("rtm_read", FALSE)>> \o RehandshakeCalls(ok)]

Count(calls, m) == Cardinality({n \in 1..Len(calls) : calls[n].m = m})

\* One turn of the while loop up to the for loop, lines 211-216: rtm_read
\* returns a batch of B or raises; at most n reads are followed.
ReadCycleOf(B, n) ==
    /\ pc = "read"
    /\ nRead < n
    /\ \E x \in {[r |-> r, s |-> ReadStep(events, r, ok)] :
                    r \in ReadResults(B), ok \in BOOLEAN} :
       LET r == x.r
           s == x.s
       IN
         /\ pc' = s.pc
         /\ events' = s.events
         /\ i' = IF s.pc = "for" THEN 0 ELSE i
         /\ nRead' = nRead + Count(s.calls, "rtm_read")
         /\ nConnect' = nConnect + Count(s.calls, "rtm_connect")
         /\ nFailed' = IF r.k = "raise" /\ Caught(r.err) THEN nFailed + 1 ELSE nFailed
         /\ lastRead' = [how |-> s.how, err |-> IF s.pc = "ended" THEN r.err ELSE ""]
         /\ ret' = Outcome("next", "", s.k, <<>>, s.err, ret.calls \o s.calls)
    /\ dropped' = {}
    /\ changed' = {}
    /\ UNCHANGED <<usercache, chanVars, nMarker>>

ReadCycle == ReadCycleOf(Batches, MaxReads)

\* Mutant of DropUsers: a user_change for a cached user clears the table.
DropUsersAll(cache, ids) ==
    IF ids \cap DOMAIN cache = {} THEN cache ELSE EmptyDict

\* Lines 239-240.
DropUsers(cache, ids) == [x \in DOMAIN cache \ ids |-> cache[x]]

\* One iteration of the for loop, lines 218-248, on the next envelope.
ProcessEvent ==
    /\ pc = "for"
    /\ i < Len(events)
    /\ LET h == HandleEvent(events[i + 1])
       IN  /\ pc' = CASE h.k = "yield" -> "yield_event"
                      [] h.k = "raise" -> "ended"
                      [] OTHER -> "for"
           /\ ret' = CASE h.k = "yield" -> Outcome("next", "", "value", h.ev, "", ret.calls)
                       [] h.k = "raise" -> Outcome("next", "", "raise", <<>>, h.err, ret.calls)
                       [] OTHER -> ret
           /\ usercache' = DropUsers(usercache, h.evict)
           /\ dropped' = dropped \cup (DOMAIN usercache \ DOMAIN usercache')
           /\ changed' = changed \cup NamedUsers(events[i + 1])
    /\ i' = i + 1
    /\ UNCHANGED <<events, chanVars, nConnect, nRead, nFailed, nMarker, lastRead>>

\* Line 249: the for loop is exhausted.
YieldNone ==
    /\ pc = "for"
    /\ i = Len(events)
    /\ pc' = "yield_none"
    /\ nMarker' = nMarker + 1
    /\ ret' = Outcome("next", "", "none", <<>>, "", ret.calls)
    /\ UNCHANGED <<events, i, usercache, chanVars, nConnect, nRead, nFailed, lastRead,
                   dropped, changed>>

\* Mutant of Init: events_iter() does the handshake when it is called, before
\* any element is asked for.
InitEager ==
    /\ pc = "read"
    /\ events = <<>>
    /\ i = 0
    /\ usercache = EmptyDict
    /\ chancache = <<>>
    /\ idcache = EmptyDict
    /\ namecache = EmptyDict
    /\ nConnect = 1
    /\ nRead = 0
    /\ nFailed = 0
    /\ nMarker = 0
    /\ lastRead = [how |-> "none", err |-> ""]
    /\ dropped = {}
    /\ changed = {}
    /\ ret = [op |-> "-", arg |-> "", k |-> "-", val |-> <<>>, err |-> "", calls |-> <<>>]

(***************************************************************************)
(* The gateway after Slack.__init__ (lines 122-127), with the generator    *)
(* events_iter() created and not yet started.                              *)
(***************************************************************************)
Init ==
    /\ pc = "created"
    /\ events = <<>>
    /\ i = 0
    /\ usercache = EmptyDict
    /\ chancache = <<>>
    /\ idcache = EmptyDict
    /\ namecache = EmptyDict
    /\ nConnect = 0
    /\ nRead = 0
    /\ nFailed = 0
    /\ nMarker = 0
    /\ lastRead = [how |-> "none", err |-> ""]
    /\ dropped = {}
    /\ changed = {}
    /\ ret = NoCall

\* The consumer's calls that are not about the event sequence.
Lookups ==
    \/ Channels
    \/ \E id \in ChannelIds : GetChannel(id)
    \/ \E name \in ChannelNames : GetChannelByName(name)
    \/ SendMessage

Users == \E id \in UserIds : GetUser(id)

\* The whole gateway: every operation, with shorter batches.
ReadShort == ReadCycleOf(SeqsUpTo(Envelopes, MaxBatchAll), MaxReadsAll)

Next ==
    \/ NextStart
    \/ NextResume
    \/ NextEnded
    \/ ReadShort
    \/ ProcessEvent
    \/ YieldNone
    \/ Lookups
    \/ Users

Spec == Init /\ [][Next]_vars

\* The event sequence and the user table it shares with get_user.
NextStream ==
    \/ NextStart
    \/ NextResume
    \/ NextEnded
    \/ ReadCycle
    \/ ProcessEvent
    \/ YieldNone
    \/ Users

SpecStream == Init /\ [][NextStream]_vars

\* The classifier: the event sequence alone, on envelopes of every kind.
ReadKinds == ReadCycleOf(KindBatches(MaxBatchKinds), MaxReadsKinds)

NextClassify ==
    \/ NextStart
    \/ NextResume
    \/ NextEnded
    \/ ReadKinds
    \/ ProcessEvent
    \/ YieldNone

SpecClassify == Init /\ [][NextClassify]_vars

\* The reference data caches alone.
NextCache == Lookups \/ Users \/ ReadRealTopic

SpecCache == Init /\ [][NextCache]_vars

(***************************************************************************)
(* Properties of the event sequence (SpecStream).                          *)
(***************************************************************************)

\* C1: reads and None markers alternate.  A read is issued only when every
\* earlier read has had its marker, a marker is yielded only when the for
\* loop has taken every envelope of the batch of the one read that has none
\* yet: between two reads there is exactly one marker, between two markers
\* exactly one read.  A cycle with no envelope (an empty batch, a recovered
\* failure) gets its marker like any other.
C1_OneMarkerPerReadCycle ==
    /\ nMarker <= nRead
    /\ nRead <= nMarker + 1
    /\ pc \in {"created", "read", "yield_none"} => nMarker = nRead /\ i = Len(events)
    /\ pc \in {"for", "yield_event"} => nRead = nMarker + 1

\* A recovered read and a read of two envelopes, each with its marker.
C1_Witness ==
    /\ pc = "yield_none"
    /\ nRead = 2
    /\ nMarker = 2
    /\ nFailed = 1
    /\ Len(events) = 2

\* C2: a first next() whose rtm_connect fails raises to the consumer (and
\* issues no read).  The code does not: the generator returns.
C2_InitialFailureRaised ==
    (ret.op = "next" /\ ret.calls = <<Call("rtm_connect", FALSE)>>) =>
        (pc = "ended" /\ nRead = 0 /\ ret.k = "raise")

\* C3: after a read that raised BrokenPipeError or TimeoutError and a successful
\* re-handshake the sequence goes on: the generator has not ended, the cycle
\* has an empty batch (no envelope of an earlier batch is taken again), so that
\* next() gives its marker and no event; and an event delivered in a later
\* cycle is the one of the envelope the for loop took last from that cycle's
\* batch.
C3_RecoveryContinues ==
    /\ lastRead.how = "recovered" =>
         /\ pc \in {"for", "yield_none", "read"}
         /\ events = <<>>
         /\ i = 0
         /\ ret.op = "next" => ret.k \in {"running", "none"}
    /\ (nFailed > 0 /\ pc = "yield_event") =>
         /\ lastRead.how = "batch"
         /\ i \in 1..Len(events)
         /\ ret.op = "next" =>
               (ret.k = "value" /\ ret.val = HandleEvent(events[i]).ev)

\* An event of a read that follows a recovered failure reaches the consumer.
C3_Witness ==
    /\ nFailed = 1
    /\ nRead = 2
    /\ pc = "yield_event"
    /\ ret.op = "next"
    /\ ret.k = "value"

\* What C4 says of a state: the sequence has ended, and next() raised the
\* exception of rtm_read (the call that read) or gives StopIteration (later).
C4_Ended ==
    lastRead.how = "failed" =>
        /\ pc = "ended"
        /\ Caught(lastRead.err)
        /\ ret.op = "next" =>
              IF ret.calls # <<>>
              THEN ret.k = "raise" /\ ret.err = lastRead.err
              ELSE ret.k = "stop"

\* What C4 says of a step: nothing of the sequence moves any more.
C4_Frozen ==
    lastRead.how = "failed" =>
        /\ UNCHANGED <<pc, events, i, nConnect, nRead, nFailed, nMarker, lastRead>>
        /\ ret'.op = "next" => ret'.k = "stop"

\* C4: when the re-handshake after a transport failure fails, next() raises
\* that transport failure and the sequence is over: no read, no handshake, no
\* event and no marker follows, every later next() gives StopIteration.
C4_FailedRecoveryTerminates == [](C4_Ended) /\ [][C4_Frozen]_vars

\* The second read failed and so did its re-handshake.
C4_Witness ==
    /\ lastRead.how = "failed"
    /\ nRead = 2
    /\ ret.op = "next"
    /\ ret.k = "raise"
    /\ ret.err = TimeoutError

\* C5: once the sequence is started, the rtm_connect calls are the initial
\* one and one per read that raised BrokenPipeError or TimeoutError; before
\* the first next() there is none.
C5_OneRehandshakePerFailure ==
    IF pc = "created"
    THEN nConnect = 0 /\ nFailed = 0
    ELSE nConnect = 1 + nFailed

\* Two failures in a row, each recovered by its own handshake.
C5_Witness ==
    /\ nFailed = 2
    /\ nRead = 2
    /\ nConnect = 3
    /\ pc = "yield_none"

\* A user_change envelope whose user decodes.
IsUserChange(e) ==
    /\ Get(e, "type") = "user_change"
    /\ Has(e, "user")
    /\ UserFields \subseteq DOMAIN e.user

\* What C6 says of the step that takes a user_change envelope: the entry of
\* its user id, and no other, leaves the table; nothing is fetched.
C6_UserChangeStep ==
    (pc = "for" /\ i < Len(events) /\ IsUserChange(events[i + 1])) =>
        LET id == events[i + 1].user.id
        IN  /\ DOMAIN usercache' = DOMAIN usercache \ {id}
            /\ \A x \in DOMAIN usercache' : usercache'[x] = usercache[x]
            /\ ret' = ret

\* What C6 says of a get_user(id) step: a hit returns the entry and fetches
\* nothing, a miss calls users.info once and stores what it returns.
C6_GetUserStep ==
    (Idle /\ ret'.op = "get_user") =>
        LET id == ret'.arg
        IN  IF id \in DOMAIN usercache
            THEN /\ ret'.calls = <<>>
                 /\ ret'.k = "value"
                 /\ ret'.val = <<usercache[id]>>
                 /\ usercache' = usercache
            ELSE /\ Len(ret'.calls) = 1
                 /\ ret'.calls[1].m = "users.info"
                 /\ ret'.k = "value" =>
                       /\ DOMAIN usercache' = DOMAIN usercache \cup {id}
                       /\ usercache'[id] = ret'.val[1]
                       /\ \A x \in DOMAIN usercache : usercache'[x] = usercache[x]

\* C6: a user_change for a cached id removes exactly that entry, so that the
\* next get_user(id) fetches once and caches again and the one after it
\* fetches nothing; a user_change for an id that is not cached leaves the
\* table as it is and fetches nothing.
C6_UserChangeEvicts == [][C6_UserChangeStep /\ C6_GetUserStep]_vars

\* U1 was dropped by a user_change of this cycle while U2 stayed, and
\* get_user("U1") has fetched it again.
C6_Witness ==
    /\ dropped = {"U1"}
    /\ ret.op = "get_user"
    /\ ret.arg = "U1"
    /\ ret.calls = <<Call("users.info", TRUE)>>
    /\ DOMAIN usercache = {"U1", "U2"}

\* An envelope of a kind the for loop decodes whose shape is not the one of
\* that kind.
WellFormedMessage(d) == {"user", "text"} \subseteq DOMAIN d
Malformed(e) ==
    LET t == Get(e, "type")
        subt == Get(e, "subtype")
    IN  \/ /\ t = "message" /\ Falsy(subt)
           /\ ~({"channel", "user", "text"} \subseteq DOMAIN e)
        \/ /\ t = "message" /\ subt = "message_changed"
           /\ ~(/\ {"channel", "message", "previous_message"} \subseteq DOMAIN e
                /\ WellFormedMessage(e.message)
                /\ WellFormedMessage(e.previous_message))
        \/ /\ t = "message" /\ subt = "message_deleted"
           /\ ~(/\ {"channel", "previous_message"} \subseteq DOMAIN e
                /\ WellFormedMessage(e.previous_message))
        \/ /\ t = "user_typing"
           /\ ~({"channel", "user"} \subseteq DOMAIN e)
        \/ /\ t = "user_change"
           /\ ~IsUserChange(e)
        \/ /\ t = "file_deleted"
           /\ ~Has(e, "file_id")

\* C10: the next() that takes a malformed envelope of a recognized kind raises
\* a schema error, which is neither the KeyError of the lookups nor a
\* transport failure.  The code raises KeyError when a key it subscripts
\* (channel, message, previous_message, user) is missing.
C10_SchemaErrorRaised ==
    (/\ lastRead.how = "batch"
     /\ i \in 1..Len(events)
     /\ Malformed(events[i])
     /\ ret.op = "next"
     /\ ret.k # "stop") =>
        (ret.k = "raise" /\ ret.err = SchemaError)

(***************************************************************************)
(* Properties of the channel caches.                                       *)
(***************************************************************************)
ListCalls(calls) == {n \in 1..Len(calls) : calls[n].m \in {"channels.list", "groups.list"}}

\* What C7 says of a state: a channels() that returned gave the memoized
\* list, which is a public list followed by a group list, and called the
\* transport not at all or once for each list.
C7_Returned ==
    (ret.op = "channels" /\ ret.k = "value") =>
        /\ chancache = <<ret.val>>
        /\ \E r1 \in ChannelsListResponses, r2 \in GroupsListResponses :
              /\ r1.ok
              /\ r2.ok
              /\ ret.val = LoadChannels(r1.channels) \o LoadChannels(r2.groups)
        /\ \/ ret.calls = <<>>
           \/ ret.calls = <<Call("channels.list", TRUE), Call("groups.list", TRUE)>>

\* What C7 says of a step: the fetch that fills the memo called each list
\* once; once filled, no step changes the memo or calls a list again, and
\* channels() returns the memoized list.
C7_Memoized ==
    /\ (chancache = <<>> /\ chancache' # <<>>) =>
          ret'.calls = <<Call("channels.list", TRUE), Call("groups.list", TRUE)>>
    /\ chancache # <<>> =>
          /\ chancache' = chancache
          /\ ret' # ret => ListCalls(ret'.calls) = {}
          /\ (ret' # ret /\ ret'.op = "channels") =>
                (ret'.k = "value" /\ ret'.val = chancache[1])

\* C7: after a fetch in which both lists were ok, channels() returns the
\* public channels followed by the groups, and whatever the consumer does
\* next, every later channels() returns that same list with no transport call.
C7_ChannelsMemoized == [](C7_Returned) /\ [][C7_Memoized]_vars

\* channels() answered from the memo after a recovered read, a get_user and a
\* get_channel.
C7_Witness ==
    /\ ret.op = "channels"
    /\ ret.calls = <<>>
    /\ chancache # <<>>
    /\ Len(chancache[1]) = 3
    /\ lastRead.how = "recovered"
    /\ DOMAIN usercache # {}
    /\ DOMAIN idcache # {}

\* C8: a channels() that called the transport called channels.list first; if
\* that was not ok it called nothing else, if it was ok it called groups.list;
\* whichever of the two was not ok, channels() raised ResponseException and
\* returned no channel.
C8_ChannelsAborts ==
    (ret.op = "channels" /\ ret.calls # <<>>) =>
        /\ ret.calls[1].m = "channels.list"
        /\ ~ret.calls[1].ok => Len(ret.calls) = 1
        /\ ret.calls[1].ok => (Len(ret.calls) = 2 /\ ret.calls[2].m = "groups.list")
        /\ (\E n \in 1..Len(ret.calls) : ~ret.calls[n].ok) =>
              (ret.k = "raise" /\ ret.err = ResponseException /\ ret.val = <<>>)

\* groups.list failed after channels.list had succeeded.
C8_Witness ==
    /\ ret.op = "channels"
    /\ ret.k = "raise"
    /\ ret.calls = <<Call("channels.list", TRUE), Call("groups.list", FALSE)>>

\* The field a lookup compares.
C9_Field == IF ret.op = "get_channel" THEN "id" ELSE "name_normalized"

\* What C9 says of a state: with the channels fetched, a lookup has raised
\* KeyError if no channel has the id (name), and returned the first one that
\* has it otherwise.
C9_Found ==
    (ret.op \in {"get_channel", "get_channel_by_name"} /\ chancache # <<>>) =>
        LET l == chancache[1]
            hits == {n \in 1..Len(l) : l[n][C9_Field] = ret.arg}
        IN  IF hits = {}
            THEN ret.k = "raise" /\ ret.err = KeyError
            ELSE /\ ret.k = "value"
                 /\ \E n \in hits : /\ ret.val = <<l[n]>>
                                     /\ \A m \in hits : n <= m

\* What C9 says of a step: with the channels fetched, a lookup calls no list.
C9_NoRefetch ==
    (/\ chancache # <<>>
     /\ ret' # ret
     /\ ret'.op \in {"get_channel", "get_channel_by_name"}) =>
        ret'.calls = <<>>

\* C9: a lookup raises KeyError for an id or name no fetched channel has and
\* returns the first channel that has it otherwise; once the channels are
\* fetched no lookup, hit or miss, fetches them again.
C9_Lookups == [](C9_Found) /\ [][C9_NoRefetch]_vars

\* Two fetched channels are named "random"; the lookup gave the first.
C9_Witness ==
    /\ ret.op = "get_channel_by_name"
    /\ ret.arg = "random"
    /\ ret.k = "value"
    /\ ret.calls = <<>>
    /\ Len(chancache[1]) = 3
    /\ ret.val[1].id = "C2"

(***************************************************************************)
(* Properties of the classifier (SpecClassify).                            *)
(***************************************************************************)

\* The envelope the for loop takes next, when it has one.
Taking == pc = "for" /\ i < Len(events)

\* An envelope of a kind the for loop has no event for: hello, channel_marked,
\* group_marked, any other type, no type at all, and a message whose subtype
\* is neither empty nor message_changed nor message_deleted.
Skipped(e) ==
    LET t == Get(e, "type")
        subt == Get(e, "subtype")
    IN  /\ t \notin {"user_typing", "user_change", "file_deleted"}
        /\ t = "message" =>
              (~Falsy(subt) /\ subt \notin {"message_changed", "message_deleted"})

\* What C11 says of the step that takes such an envelope: the generator stays
\* in the for loop at the next envelope; nothing is delivered, raised or
\* written.
C11_SkipStep ==
    (Taking /\ Skipped(events[i + 1])) =>
        /\ pc' = "for"
        /\ i' = i + 1
        /\ events' = events
        /\ ret' = ret
        /\ usercache' = usercache
        /\ nMarker' = nMarker
        /\ nRead' = nRead

\* What C11 says of the steps that follow: the for loop takes the envelopes
\* one by one in the order of the batch, and with none left the marker is
\* yielded.
C11_GoesOn ==
    pc = "for" =>
        /\ events' = events
        /\ i < Len(events) => i' = i + 1
        /\ i = Len(events) => (pc' = "yield_none" /\ nMarker' = nMarker + 1 /\ i' = i)

\* C11: an envelope of an unrecognized kind, or of kind hello, channel_marked
\* or group_marked, emits nothing and does not fail or end the sequence: the
\* for loop goes on with the next envelope of the batch and the marker of the
\* cycle is yielded after the last one.
C11_UnrecognizedSkipped == [][C11_SkipStep /\ C11_GoesOn]_vars

\* A bot message was skipped, the message after it delivered, then the marker.
C11_Witness ==
    /\ pc = "yield_none"
    /\ events = <<EvBotMessage, EvMessage>>
    /\ nMarker = 1
    /\ ret.k = "none"

\* The Message with the channel of envelope e and the user and text of d.
MessageOf(tag, e, d) ==
    [tag |-> tag, channel |-> e.channel, user |-> d.user, text |-> d.text]

\* C12: the event delivered for a message_changed envelope is the MessageEdit
\* of the two nested messages, each with the envelope's channel; the one
\* delivered for a message_deleted envelope is the MessageDelete of
\* previous_message with the envelope's channel.  A channel of the nested
\* object itself does not count.
C12_ChannelInjected ==
    (pc = "yield_event" /\ ret.op = "next" /\ i \in 1..Len(events)) =>
        LET e == events[i]
        IN  /\ (Get(e, "type") = "message" /\ Get(e, "subtype") = "message_changed") =>
                  ret.val = <<[tag |-> "MessageEdit",
                               previous |-> MessageOf("Message", e, e.previous_message),
                               current |-> MessageOf("Message", e, e.message)]>>
            /\ (Get(e, "type") = "message" /\ Get(e, "subtype") = "message_deleted") =>
                  ret.val = <<MessageOf("MessageDelete", e, e.previous_message)>>

\* An edit in channel C1 whose nested message says C2 was delivered with C1.
C12_Witness ==
    /\ pc = "yield_event"
    /\ i \in 1..Len(events)
    /\ events[i] = EvMessageChanged
    /\ events[i].message.channel = "C2"
    /\ ret.val[1].current.channel = "C1"
    /\ ret.val[1].previous.channel = "C1"

\* C13: every Message, MessageDelete and message of a MessageEdit delivered to
\* the consumer has a channel id that is not empty.  The code copies the
\* channel of the envelope without looking at it.
C13_ChannelNonEmpty ==
    (pc = "yield_event" /\ ret.op = "next" /\ ret.k = "value") =>
        LET ev == ret.val[1]
        IN  /\ ev.tag \in {"Message", "MessageDelete"} => ev.channel # ""
            /\ ev.tag = "MessageEdit" =>
                  (ev.previous.channel # "" /\ ev.current.channel # "")

\* The tag of the dispatch table for the (type, subtype) of envelope e, ""
\* when the table has none.
TableTag(e) ==
    LET t == Get(e, "type")
        subt == Get(e, "subtype")
    IN  CASE t = "message" /\ (subt = None \/ subt = "") -> "Message"
          [] t = "message" /\ subt = "message_changed" -> "MessageEdit"
          [] t = "message" /\ subt = "message_deleted" -> "MessageDelete"
          [] t = "user_typing" -> "UserTyping"
          [] t = "file_deleted" -> "FileDeleted"
          [] OTHER -> ""

\* The step delivers one event, of the tag the table gives the envelope.
DeliversTableTag(e) ==
    /\ pc' = "yield_event"
    /\ ret'.k = "value"
    /\ Len(ret'.val) = 1
    /\ ret'.val[1].tag = TableTag(e)

\* C17 as stated: the step that takes an envelope delivers an event exactly
\* when the table has a tag for its (type, subtype), and the event has that
\* tag.  An envelope of a kind of the table whose payload does not decode
\* delivers nothing.
C17_DispatchExact ==
    [][Taking =>
          LET e == events[i + 1]
          IN  /\ TableTag(e) # "" <=> pc' = "yield_event"
              /\ pc' = "yield_event" => DeliversTableTag(e)]_vars

\* C17, amended: an event is delivered only for an envelope the table has a
\* tag for, and it has that tag whatever the payload looks like; an envelope
\* the table has a tag for delivers its event when its payload decodes and
\* raises when it does not; a user_change envelope delivers nothing.
C17_DispatchTable ==
    [][Taking =>
          LET e == events[i + 1]
          IN  /\ pc' = "yield_event" => (TableTag(e) # "" /\ DeliversTableTag(e))
              /\ (TableTag(e) # "" /\ ~Malformed(e)) => DeliversTableTag(e)
              /\ (TableTag(e) # "" /\ Malformed(e)) =>
                     (pc' = "ended" /\ ret'.k = "raise")
              /\ Get(e, "type") = "user_change" => pc' # "yield_event"]_vars

\* A user_typing envelope with the fields of a Message was delivered as a
\* UserTyping, after a plain message.
C17_Witness ==
    /\ pc = "yield_event"
    /\ events = <<EvMessage, EvUserTypingWithText>>
    /\ i = 2
    /\ ret.val = <<[tag |-> "UserTyping", channel |-> "C1", user |-> "U1"]>>

(***************************************************************************)
(* The event loop is sequential and lazy (SpecStream).                     *)
(***************************************************************************)

\* What C15 says of a state: the generator runs only inside a next() of the
\* consumer, nothing was called before the first next(), and an event is
\* delivered while its envelope is the last one taken.
C15_Lazy ==
    /\ pc \in {"read", "for"} => (ret.op = "next" /\ ret.k = "running")
    /\ pc = "created" => (nConnect = 0 /\ nRead = 0 /\ events = <<>>)
    /\ pc = "yield_event" => i \in 1..Len(events)

\* What C15 says of a step: a handshake or a read is a step of a next(), and a
\* read comes only with every envelope of the batch taken; the for loop takes
\* the envelopes one by one in the order of the batch, and an event it
\* delivers is the one event of the envelope it has just taken; the batch
\* changes only by a read.
C15_Step ==
    /\ (nRead' # nRead \/ nConnect' # nConnect) =>
          /\ pc \in {"created", "read"}
          /\ ret'.op = "next"
          /\ pc = "read" => (ret.op = "next" /\ ret.k = "running" /\ i = Len(events))
    /\ pc = "for" =>
          /\ events' = events
          /\ i' = IF i < Len(events) THEN i + 1 ELSE i
          /\ nRead' = nRead
          /\ pc' = "yield_event" =>
                /\ ret'.k = "value"
                /\ Len(ret'.val) = 1
                /\ ret'.val = HandleEvent(events[i']).ev
    /\ pc \in {"created", "yield_event", "yield_none", "ended"} =>
          (events' = events /\ i' = i /\ nRead' = nRead)
    /\ events' # events => (pc = "read" /\ nRead' = nRead + 1)

\* C15: the events of a read cycle reach the consumer one per envelope at
\* most, in the order of the batch, all of them before the next rtm_read; and
\* rtm_connect and rtm_read are called only while a next() of the consumer
\* runs, never before the first one nor by get_user.
C15_SequentialLazy == [](C15_Lazy) /\ [][C15_Step]_vars

\* The second event of the second batch is with the consumer, who has called
\* get_user since: no read has followed.
C15_Witness ==
    /\ pc = "yield_event"
    /\ nRead = 2
    /\ Len(events) = 2
    /\ i = 2
    /\ ret.op = "get_user"
    /\ HandleEvent(events[1]).k = "yield"

(***************************************************************************)
(* Properties of the user table and of the caches (SpecCache, Spec).       *)
(***************************************************************************)

\* What C14 says of a get_user(id) step.
C14_Step ==
    (ret'.op = "get_user" /\ <<ret, usercache>>' # <<ret, usercache>>) =>
        LET id == ret'.arg
        IN  IF id \in DOMAIN usercache
            THEN /\ ret'.calls = <<>>
                 /\ ret'.k = "value"
                 /\ ret'.val = <<usercache[id]>>
                 /\ usercache' = usercache
            ELSE /\ Len(ret'.calls) = 1
                 /\ ret'.calls[1].m = "users.info"
                 /\ ret'.calls[1].ok =>
                       /\ ret'.k = "value"
                       /\ \E r \in UsersInfoResponses(id) :
                             r.ok /\ ret'.val = <<LoadUser(r.user)>>
                       /\ DOMAIN usercache' = DOMAIN usercache \cup {id}
                       /\ usercache'[id] = ret'.val[1]
                       /\ \A x \in DOMAIN usercache : usercache'[x] = usercache[x]
                 /\ ~ret'.calls[1].ok =>
                       /\ ret'.k = "raise"
                       /\ ret'.err = KeyError
                       /\ ret'.val = <<>>
                       /\ usercache' = usercache

\* What C14 says of the state a get_user leaves: a user it returned is the
\* entry of the table, an id it raised for has no entry.
C14_Left ==
    ret.op = "get_user" =>
        /\ ret.k \in {"value", "raise"}
        /\ ret.k = "value" => (ret.arg \in DOMAIN usercache /\ usercache[ret.arg] = ret.val[1])
        /\ ret.k = "raise" => (ret.arg \notin DOMAIN usercache /\ ret.err = KeyError)

\* C14: get_user(id) returns the entry of the user table with no call when
\* there is one; without one it calls users.info once, and stores and returns
\* the decoded user when that was ok, and raises KeyError with the table as it
\* was when it was not, so that the next get_user(id) finds no entry and calls
\* users.info again.
C14_GetUser == [](C14_Left) /\ [][C14_Step]_vars

\* users.info was not ok for U1 while U2 is in the table.
C14_Witness ==
    /\ ret.op = "get_user"
    /\ ret.arg = "U1"
    /\ ret.k = "raise"
    /\ ret.err = KeyError
    /\ ret.calls = <<Call("users.info", FALSE)>>
    /\ DOMAIN usercache = {"U2"}

\* C16: real_topic of a channel is the value of its topic when that is not
\* empty and the value of its purpose when it is, which is the empty string
\* when both are empty.
C16_RealTopic ==
    ret.op = "real_topic" =>
        LET c == ret.val[1]
            v == ret.val[2].value
        IN  /\ c.topic.value # "" => v = c.topic.value
            /\ c.topic.value = "" => v = c.purpose.value
            /\ (c.topic.value = "" /\ c.purpose.value = "") => v = ""

\* real_topic of a fetched group whose topic and purpose are both empty.
C16_Witness ==
    /\ ret.op = "real_topic"
    /\ ret.val[1].topic.value = ""
    /\ ret.val[1].purpose.value = ""
    /\ ret.val[2].value = ""
    /\ \E n \in 1..Len(chancache[1]) :
          chancache[1][n].topic.value # "" /\ chancache[1][n].purpose.value # ""

\* A step of get_user that fetched the user and added its entry.
C18_AddedByGetUser ==
    /\ Idle
    /\ ret'.op = "get_user"
    /\ ret'.arg \notin DOMAIN usercache
    /\ ret'.calls = <<Call("users.info", TRUE)>>
    /\ DOMAIN usercache' = DOMAIN usercache \cup {ret'.arg}
    /\ usercache'[ret'.arg] = ret'.val[1]
    /\ \A x \in DOMAIN usercache : usercache'[x] = usercache[x]

\* A step of the for loop on a user_change envelope that removed the entry of
\* the user it names.
C18_RemovedByUserChange ==
    /\ Taking
    /\ IsUserChange(events[i + 1])
    /\ events[i + 1].user.id \in DOMAIN usercache
    /\ DOMAIN usercache' = DOMAIN usercache \ {events[i + 1].user.id}
    /\ \A x \in DOMAIN usercache' : usercache'[x] = usercache[x]

\* C18: a step that changes the user table is a get_user that fetched the
\* user it was asked for or the for loop taking a user_change envelope for a
\* user of the table; no other envelope, no handshake, read, recovery, channel
\* lookup or send_message writes it; and no step of the event sequence changes
\* the memoized channel list or the memos of the lookups.
C18_UserTableFrame ==
    [][/\ usercache' # usercache => (C18_AddedByGetUser \/ C18_RemovedByUserChange)
       /\ (pc \in {"read", "for"} \/ ret'.op = "next") => chanVars' = chanVars]_vars

\* With both users in the table and the channels memoized, a message of U1
\* was delivered.
C18_Witness ==
    /\ pc = "yield_event"
    /\ events = <<EvMessage>>
    /\ ret.op = "next"
    /\ DOMAIN usercache = {"U1", "U2"}
    /\ chancache # <<>>
    /\ DOMAIN namecache # {}

(***************************************************************************)
(* get_user between the elements of the event sequence (SpecStream).       *)
(***************************************************************************)

\* What C19 says of a state of a read cycle, the one at its marker included:
\* a user id that a user_change envelope taken in this cycle named, and that
\* get_user has not fetched since, has no entry in the user table; and every
\* id named by such an envelope is one of those or was fetched again.
C19_Evicted ==
    pc \in {"for", "yield_event", "yield_none"} =>
        /\ changed \cap DOMAIN usercache = {}
        /\ \A n \in 1..i : NamedUsers(events[n]) \subseteq changed \cup DOMAIN usercache

\* A later envelope of the batch names the user id.
NamedLater(id) == \E n \in (i + 1)..Len(events) : id \in NamedUsers(events[n])

\* What C19 says of a step: an entry leaves the user table in the step of the
\* for loop that takes a user_change envelope naming it, not in the read of
\* the batch and not while earlier envelopes are taken; a get_user for a user
\* of the table that a later envelope of the batch names returns the entry
\* and fetches nothing.
C19_Step ==
    /\ \A id \in DOMAIN usercache :
          id \notin DOMAIN usercache' => (Taking /\ id \in NamedUsers(events[i + 1]))
    /\ pc = "read" => usercache' = usercache
    /\ (/\ pc = "yield_event"
        /\ ret' # ret
        /\ ret'.op = "get_user"
        /\ ret'.arg \in DOMAIN usercache
        /\ NamedLater(ret'.arg)) =>
          /\ ret'.k = "value"
          /\ ret'.val = <<usercache[ret'.arg]>>
          /\ ret'.calls = <<>>
          /\ usercache' = usercache

\* C19: whatever get_user calls the consumer makes between the elements, at
\* the marker of a read cycle the user table has no entry for an id a
\* user_change envelope of the cycle named, unless get_user fetched it after
\* that envelope was taken; the entry goes when the envelope is taken, so a
\* get_user made while an earlier event of the batch is with the consumer
\* still returns the entry.
C19_EvictionAtProcessing == [](C19_Evicted) /\ [][C19_Step]_vars

\* While the message before a user_change for U1 is with the consumer,
\* get_user("U1") returned the entry of the table.
C19_Witness ==
    /\ pc = "yield_event"
    /\ events = <<EvMessage, EvUserChange("U1")>>
    /\ i = 1
    /\ ret.op = "get_user"
    /\ ret.arg = "U1"
    /\ ret.k = "value"
    /\ ret.calls = <<>>
    /\ "U1" \in DOMAIN usercache

(***************************************************************************)
(* A failed fetch of the channels (SpecCache).                             *)
(***************************************************************************)
ChannelOps == {"channels", "get_channel", "get_channel_by_name"}

\* What C20 says of a state: with no channel list memoized no lookup is
\* memoized either, and a call that raised the upstream error left it so.
C20_NothingMemoized ==
    /\ chancache = <<>> => (idcache = EmptyDict /\ namecache = EmptyDict)
    /\ (ret.op \in ChannelOps /\ ret.k = "raise" /\ ret.err = ResponseException) =>
          chancache = <<>>

\* What C20 says of a step of channels(), get_channel or get_channel_by_name:
\* with nothing memoized it calls channels.list first; if a list call is not
\* ok it raises ResponseException, not KeyError, and memoizes nothing; the
\* channel list is memoized only by a step in which both calls were ok.
C20_Step ==
    (ret'.op \in ChannelOps /\ <<ret, chanVars>>' # <<ret, chanVars>>) =>
        /\ chancache = <<>> =>
              (ret'.calls # <<>> /\ ret'.calls[1].m = "channels.list")
        /\ (\E n \in 1..Len(ret'.calls) : ~ret'.calls[n].ok) =>
              /\ ret'.k = "raise"
              /\ ret'.err = ResponseException
              /\ chanVars' = chanVars
        /\ chancache' # chancache =>
              ret'.calls = <<Call("channels.list", TRUE), Call("groups.list", TRUE)>>

\* C20: a channels() that raised memoizes nothing: the next channels(),
\* get_channel or get_channel_by_name fetches again from channels.list; a
\* lookup whose fetch fails raises ResponseException rather than KeyError;
\* only a fetch in which both lists were ok is memoized.
C20_FailureNotMemoized == [](C20_NothingMemoized) /\ [][C20_Step]_vars

\* get_channel fetched, groups.list was not ok, and it raised the upstream
\* error.
C20_Witness ==
    /\ ret.op = "get_channel"
    /\ ret.k = "raise"
    /\ ret.err = ResponseException
    /\ ret.calls = <<Call("channels.list", TRUE), Call("groups.list", FALSE)>>
    /\ chancache = <<>>

====
